---------------------------- MODULE Spec2Model ----------------------------
(***************************************************************************)
(* The Kotlin parser of emerge (emerge/languages/kotlinparser.py) as a     *)
(* state machine.                                                          *)
(*                                                                         *)
(* A token is a sequence of characters; a character is a string.  The      *)
(* keywords are written as one character each ("import" stands for the     *)
(* six letters), letters are alphanumeric characters, "." and "*" are the  *)
(* path characters, "_" is a character that no grammar word accepts.       *)
(* The read-ahead string of the code is a list of tokens joined by single  *)
(* blanks; it is kept here as the list of its tokens, and pyparsing's      *)
(* Word(chars) at a token is the longest non-empty prefix of the token     *)
(* made of chars.                                                          *)
(*                                                                         *)
(* The two public operations are run step by step, one loop iteration of   *)
(* the code per step; the parser is single-threaded, so a call runs to its *)
(* end before the next call starts (pc = "idle" between calls).            *)
(***************************************************************************)
EXTENDS Integers, Sequences, FiniteSets, TLC

\* ------------------------------------------------------------------ bounds

\* number of generate_file_result_from_analysis calls in one behaviour
MaxFileCalls == 2
\* number of generate_entity_results_from_analysis calls in one behaviour
MaxEntityCalls == 1
\* the same two numbers for the behaviours checked for termination
MaxFairFileCalls == 1
MaxFairEntityCalls == 1

\* ------------------------------------------------------- program constants

\* ParsingMixin.Constants.MAX_READ_AHEAD_TOKENS (spec 4.3: "e.g. 30")
MAX_READ_AHEAD_TOKENS == 30

\* KotlinParsingKeyword
CLASS == <<"class">>
OBJECT == <<"object">>
OPEN_SCOPE == <<"{">>
CLOSE_SCOPE == <<"}">>
INLINE_COMMENT == <<"//">>
START_BLOCK_COMMENT == <<"/*">>
STOP_BLOCK_COMMENT == <<"*/">>
IMPORT == <<"import">>
PACKAGE == <<"package">>

\* CoreParsingKeyword.COLON / DOT / ASTERISK; the newline-bearing token
COLON == <<":">>
DOT == "."
ASTERISK == "*"
NEWLINE == <<"\n">>
SEMICOLON == <<";">>
COMMA == <<",">>

\* pp.alphanums, on the characters the inputs use (a keyword is a run of letters)
alphanums == {"a", "b", "x", "F", "G", "package", "import", "class", "object"}

\* ------------------------------------------------------------ pure helpers

Min(a, b) == IF a < b THEN a ELSE b

\* pp.Word(chars) applied at the start of token tok: the longest prefix of tok
\* whose characters are all in chars (the match fails when it is empty)
WordPrefixLen(tok, chars) ==
    CHOOSE n \in 0..Len(tok) :
        /\ \A i \in 1..n : tok[i] \in chars
        /\ (n = Len(tok) \/ tok[n + 1] \notin chars)

WordPrefix(tok, chars) == SubSeq(tok, 1, WordPrefixLen(tok, chars))

\* create_read_ahead_string(obj, following): the anchor and at most
\* MAX_READ_AHEAD_TOKENS of the tokens that follow position i
create_read_ahead_string(stream, i) ==
    SubSeq(stream, i, Min(Len(stream), i + MAX_READ_AHEAD_TOKENS))

\* pp.Keyword(PACKAGE) + pp.Word(alphanums + DOT) on a read-ahead string
NoMatch == [ok |-> FALSE, name |-> <<>>, inherited |-> <<>>]

MatchPackage(ra) ==
    IF /\ Len(ra) >= 2
       /\ ra[1] = PACKAGE
       /\ WordPrefixLen(ra[2], alphanums \cup {DOT}) > 0
    THEN [ok |-> TRUE, name |-> WordPrefix(ra[2], alphanums \cup {DOT}), inherited |-> <<>>]
    ELSE NoMatch

\* pp.Keyword(IMPORT) + pp.Word(alphanums + DOT + ASTERISK)
MatchImport(ra) ==
    IF /\ Len(ra) >= 2
       /\ ra[1] = IMPORT
       /\ WordPrefixLen(ra[2], alphanums \cup {DOT, ASTERISK}) > 0
    THEN [ok |-> TRUE, name |-> WordPrefix(ra[2], alphanums \cup {DOT, ASTERISK}),
          inherited |-> <<>>]
    ELSE NoMatch

\* (Keyword(k1) | Keyword(k2)) + Word(alphanums)("entity_name")
\*   + Optional(Keyword(":") + Word(alphanums)("inherited_entity_name"))
\*   + SkipTo(FollowedBy("{"))
\* The optional clause is tried right after the entity name: only when the name
\* took its whole token, the next token is ":" and the one after starts a word.
\* SkipTo fails, and with it the whole match, when no "{" follows.
MatchEntityExpression(ra, keywords) ==
    IF /\ Len(ra) >= 2
       /\ ra[1] \in keywords
       /\ WordPrefixLen(ra[2], alphanums) > 0
       /\ \E j \in 3..Len(ra) : ra[j] = OPEN_SCOPE
    THEN LET hasInherited ==
                 /\ WordPrefixLen(ra[2], alphanums) = Len(ra[2])
                 /\ Len(ra) >= 4
                 /\ ra[3] = COLON
                 /\ WordPrefixLen(ra[4], alphanums) > 0
         IN [ok |-> TRUE,
             name |-> WordPrefix(ra[2], alphanums),
             inherited |-> IF hasInherited THEN WordPrefix(ra[4], alphanums) ELSE <<>>]
    ELSE NoMatch

\* ------------------------------------------- tokens, comments and scopes

\* preprocess_file_content_and_generate_token_list[_by_mapping] on a string that
\* is a list of tokens joined by blanks: splitting on whitespace gives the tokens
\* back, except the newline-bearing ones, which are whitespace
preprocess_file_content_and_generate_token_list(tokens) ==
    SelectSeq(tokens, LAMBDA t : t # NEWLINE)

\* _filter_source_tokens_without_comments: drops the tokens from a line-comment
\* marker through the next newline-bearing token and from a block-start marker
\* through the next block-end marker (to the end of input when there is none)
RECURSIVE FilterFrom(_, _, _)
FilterFrom(tokens, i, mode) ==
    IF i > Len(tokens) THEN <<>>
    ELSE LET t == tokens[i] IN
         CASE mode = "code" ->
                  IF t = INLINE_COMMENT THEN FilterFrom(tokens, i + 1, "line")
                  ELSE IF t = START_BLOCK_COMMENT THEN FilterFrom(tokens, i + 1, "block")
                  ELSE <<t>> \o FilterFrom(tokens, i + 1, "code")
           [] mode = "line" ->
                  FilterFrom(tokens, i + 1, IF t = NEWLINE THEN "code" ELSE "line")
           [] OTHER ->
                  FilterFrom(tokens, i + 1, IF t = STOP_BLOCK_COMMENT THEN "code" ELSE "block")

_filter_source_tokens_without_comments(tokens) == FilterFrom(tokens, 1, "code")

\* the comment-filtered, re-tokenized stream both file-level routines scan
filtered_list_no_comments(tokens) ==
    preprocess_file_content_and_generate_token_list(
        _filter_source_tokens_without_comments(tokens))

\* the positions of stream that hold token kw, in increasing order
RECURSIVE SortedSeq(_)
SortedSeq(S) ==
    IF S = {} THEN <<>>
    ELSE LET m == CHOOSE x \in S : \A y \in S : x <= y
         IN <<m>> \o SortedSeq(S \ {m})

AnchorPositions(stream, kw) ==
    SortedSeq({i \in 1..Len(stream) : stream[i] = kw})

\* brace matching: the position of the "}" that closes the first "{" after
\* position i, or the end of the stream when it is never closed
RECURSIVE CloseFrom(_, _, _)
CloseFrom(stream, j, depth) ==
    IF j > Len(stream) THEN Len(stream)
    ELSE IF stream[j] = OPEN_SCOPE THEN CloseFrom(stream, j + 1, depth + 1)
    ELSE IF stream[j] = CLOSE_SCOPE
         THEN IF depth = 1 THEN j ELSE CloseFrom(stream, j + 1, depth - 1)
    ELSE CloseFrom(stream, j + 1, depth)

\* the token slice of the entity declared at position i: from its keyword to
\* the brace that closes its scope
find_scope(stream, i) ==
    LET open == CHOOSE j \in (i + 1)..Len(stream) :
                    /\ stream[j] = OPEN_SCOPE
                    /\ \A k \in (i + 1)..(j - 1) : stream[k] # OPEN_SCOPE
    IN SubSeq(stream, i, CloseFrom(stream, open + 1, 1))

\* found_entities[name] = tokens, in a mapping that keeps insertion order
PutEntity(found, name, tokens) ==
    IF \E k \in 1..Len(found) : found[k].name = name
    THEN [k \in 1..Len(found) |->
             IF found[k].name = name THEN [name |-> name, tokens |-> tokens] ELSE found[k]]
    ELSE Append(found, [name |-> name, tokens |-> tokens])

\* the loop over the anchor positions, from the k-th on (each intermediate
\* mapping is bound to its value before the loop goes on)
RECURSIVE ScanEntities(_, _, _, _)
ScanEntities(stream, positions, k, found) ==
    IF k > Len(positions) THEN found
    ELSE LET m == MatchEntityExpression(create_read_ahead_string(stream, positions[k]),
                                        {CLASS, OBJECT})
         IN CHOOSE r \in {ScanEntities(stream, positions, k + 1, f) :
                             f \in {IF m.ok
                                    THEN PutEntity(found, m.name, find_scope(stream, positions[k]))
                                    ELSE found}} : TRUE

\* AbstractFileResult.generate_entity_results_from_scopes: the entities the
\* entity grammar matches in the file's comment-filtered tokens, one per name,
\* scanned keyword by keyword (entity_keywords = [CLASS, OBJECT])
found_entities(tokens) ==
    CHOOSE r \in {ScanEntities(stream, positions, 1, <<>>) :
                     stream \in {filtered_list_no_comments(tokens)},
                     positions \in {AnchorPositions(filtered_list_no_comments(tokens), CLASS)
                                        \o AnchorPositions(filtered_list_no_comments(tokens), OBJECT)}} :
        TRUE

\* ------------------------------------------------------------ the inputs

\* the analyses a run hands to the parser, and the components each one's
\* configuration ignores in dependencies
Analyses == {"an1", "an2"}

IgnoreList == [an \in Analyses |-> IF an = "an1" THEN {"x"} ELSE {}]

\* the unique names of the file results (relative file paths)
Path1 == <<"f1.kt">>
Path2 == <<"f2.kt">>
Path3 == <<"f3.kt">>

tA == <<"a">>
tB == <<"b">>
tF == <<"F">>
tG == <<"G">>
tX == <<"x">>
tAF == <<"a", ".", "F">>
tBG == <<"b", ".", "G">>
tXF == <<"x", ".", "F">>
tAStar == <<"a", ".", "*">>
tAF_G == <<"a", ".", "F", "_", "G">>
tB_ == <<"b", ".", "_">>

\* package a ; import a.F ; class G : F { }
Content1 == <<PACKAGE, tA, SEMICOLON, IMPORT, tAF, SEMICOLON,
              CLASS, tG, COLON, tF, OPEN_SCOPE, CLOSE_SCOPE>>
\* class F { }
Content2 == <<CLASS, tF, OPEN_SCOPE, CLOSE_SCOPE>>
\* import b.G import b.G import x.F class F : G , a { G }
Content3 == <<IMPORT, tBG, IMPORT, tBG, IMPORT, tXF,
              CLASS, tF, COLON, tG, COMMA, tA, OPEN_SCOPE, tG, CLOSE_SCOPE>>
\* // import b.G <newline> /* package b */ import a.F object G : F { F }
Content4 == <<INLINE_COMMENT, IMPORT, tBG, NEWLINE,
              START_BLOCK_COMMENT, PACKAGE, tB, STOP_BLOCK_COMMENT,
              IMPORT, tAF, OBJECT, tG, COLON, tF, OPEN_SCOPE, tF, CLOSE_SCOPE>>
\* package a package ; import ; import a.F_G import a.* import b._
\* class G { class a.* }
Content5 == <<PACKAGE, tA, PACKAGE, SEMICOLON, IMPORT, SEMICOLON, IMPORT, tAF_G,
              IMPORT, tAStar, IMPORT, tB_,
              CLASS, tG, OPEN_SCOPE, CLASS, tAStar, CLOSE_SCOPE>>
\* package a package b class F : G { object G : F { } }
Content6 == <<PACKAGE, tA, PACKAGE, tB, CLASS, tF, COLON, tG, OPEN_SCOPE,
              OBJECT, tG, COLON, tF, OPEN_SCOPE, CLOSE_SCOPE, CLOSE_SCOPE>>

\* the source files: a path and the token list the tokenizer hands over as
\* scanned_tokens; a path is listed with each content the file has over time
Sources ==
    {[path |-> Path1, content |-> Content1],
     [path |-> Path1, content |-> Content6],
     [path |-> Path2, content |-> Content2],
     [path |-> Path2, content |-> Content5],
     [path |-> Path3, content |-> Content3],
     [path |-> Path3, content |-> Content4]}

\* ------------------------------------------------- records and collaborators

Range(s) == {s[i] : i \in 1..Len(s)}

\* _is_dependency_in_ignore_list(dependency, analysis): the dependency contains
\* a string of the analysis's ignore list
_is_dependency_in_ignore_list(dependency, an) ==
    \E c \in IgnoreList[an] : c \in Range(dependency)

\* Statistics.increment(key)
increment(st, an, key) == [st EXCEPT ![an][key] = @ + 1]

NoResult ==
    [kind |-> "none", id |-> 0, analysis |-> "", unique_name |-> <<>>,
     module_name |-> <<>>, entity_name |-> <<>>, scanned_tokens |-> <<>>,
     scanned_import_dependencies |-> <<>>, scanned_inheritance_dependencies |-> <<>>,
     parent |-> 0, steps |-> <<>>]

\* FileResult.create_file_result(..., module_name="", scanned_tokens=...)
create_file_result(id, an, path, tokens) ==
    [NoResult EXCEPT !.kind = "file", !.id = id, !.analysis = an,
                     !.unique_name = path, !.scanned_tokens = tokens]

\* the EntityResult generate_entity_results_from_scopes builds for one entity
create_entity_result(id, file, found) ==
    [NoResult EXCEPT !.kind = "entity", !.id = id, !.analysis = file.analysis,
                     !.module_name = file.module_name, !.entity_name = found.name,
                     !.scanned_tokens = found.tokens, !.parent = file.id]

generate_entity_results_from_scopes(file, firstId) ==
    CHOOSE ers \in {[k \in 1..Len(found) |-> create_entity_result(firstId + k - 1, file, found[k])] :
                       found \in {found_entities(file.scanned_tokens)}} : TRUE

\* self._results, a dict: it keeps its keys in the order of their first
\* insertion, so the mapping is the sequence of its (key, value) items
Keys(res) == {res[k].key : k \in 1..Len(res)}

Values(res) == [k \in 1..Len(res) |-> res[k].value]

Lookup(res, key) == res[CHOOSE k \in 1..Len(res) : res[k].key = key].value

\* faulty variant of dict_set: an existing key keeps its first value
dict_set_keep_first(res, key, value) ==
    IF key \in Keys(res) THEN res ELSE Append(res, [key |-> key, value |-> value])

\* faulty variant of dict_set: the insertion starts a new mapping
dict_set_reset(res, key, value) == <<[key |-> key, value |-> value]>>

\* self._results[key] = value
dict_set(res, key, value) ==
    IF key \in Keys(res)
    THEN [k \in 1..Len(res) |->
             IF res[k].key = key THEN [key |-> key, value |-> value] ELSE res[k]]
    ELSE Append(res, [key |-> key, value |-> value])

\* faulty variant of filtered_results: the analysis is not compared
filtered_results_any_analysis(res, an) ==
    SelectSeq(Values(res), LAMBDA v : v.kind = "file")

\* {k: v for (k, v) in self.results.items()
\*    if v.analysis is analysis and isinstance(v, AbstractFileResult)}
filtered_results(res, an) ==
    SelectSeq(Values(res), LAMBDA v : v.analysis = an /\ v.kind = "file")

\* --------------------------------------------------------- the loop bodies

\* faulty variant of next_position: a failed match ends the scan
next_position_stop_on_miss(stream, p, matched) ==
    IF matched THEN p + 1 ELSE Len(stream) + 1

\* the for loop over _gen_word_read_ahead: the position scanned after pos
\* (matched tells whether the attempt at pos, if any, succeeded)
next_position(stream, p, matched) == p + 1

\* faulty variant of add_package_name: a name already set is kept
add_package_name_keep_first(c, st, ra) ==
    LET m == MatchPackage(ra)
    IN IF ~m.ok
       THEN [cur |-> c, stats |-> increment(st, c.analysis, "PARSING_MISSES"), ok |-> FALSE]
       ELSE [cur |-> IF c.module_name = <<>> THEN [c EXCEPT !.module_name = m.name] ELSE c,
             stats |-> increment(st, c.analysis, "PARSING_HITS"), ok |-> TRUE]

\* _add_package_name_to_result, the body run at a PACKAGE token
add_package_name(c, st, ra) ==
    LET m == MatchPackage(ra)
    IN IF ~m.ok
       THEN [cur |-> c, stats |-> increment(st, c.analysis, "PARSING_MISSES"), ok |-> FALSE]
       ELSE [cur |-> [c EXCEPT !.module_name = m.name],
             stats |-> increment(st, c.analysis, "PARSING_HITS"), ok |-> TRUE]

\* faulty variant of record_import: the ignore list is not consulted
record_import_unchecked(c, dependency, an) ==
    [c EXCEPT !.scanned_import_dependencies = Append(@, dependency)]

\* faulty variant of record_import: an import already recorded is not added again
record_import_deduplicated(c, dependency, an) ==
    IF \/ _is_dependency_in_ignore_list(dependency, an)
       \/ dependency \in Range(c.scanned_import_dependencies)
    THEN c
    ELSE [c EXCEPT !.scanned_import_dependencies = Append(@, dependency)]

\* _add_imports_to_result, the part after a successful match
record_import(c, dependency, an) ==
    IF _is_dependency_in_ignore_list(dependency, an)
    THEN c
    ELSE [c EXCEPT !.scanned_import_dependencies = Append(@, dependency)]

\* _add_imports_to_result, the body run at an IMPORT token
add_imports(c, st, ra, an) ==
    LET m == MatchImport(ra)
    IN IF ~m.ok
       THEN [cur |-> c, stats |-> increment(st, c.analysis, "PARSING_MISSES"), ok |-> FALSE]
       ELSE [cur |-> record_import(c, m.name, an),
             stats |-> increment(st, an, "PARSING_HITS"), ok |-> TRUE]

\* _add_inheritance_to_entity_result, the body run at a CLASS token
add_inheritance(c, st, ra) ==
    LET m == MatchEntityExpression(ra, {CLASS})
    IN IF ~m.ok
       THEN [cur |-> c, stats |-> increment(st, c.analysis, "PARSING_MISSES"), ok |-> FALSE]
       ELSE IF m.inherited # <<>>
       THEN [cur |-> [c EXCEPT !.scanned_inheritance_dependencies = Append(@, m.inherited)],
             stats |-> increment(st, c.analysis, "PARSING_HITS"), ok |-> TRUE]
       ELSE [cur |-> c, stats |-> st, ok |-> TRUE]

\* scanned_import.split(DOT)[-1]
last_component_of_import(imp) ==
    LET dots == {i \in 1..Len(imp) : imp[i] = DOT}
        last == IF dots = {} THEN 0 ELSE CHOOSE i \in dots : \A j \in dots : j <= i
    IN SubSeq(imp, last + 1, Len(imp))

\* Python's "s in t" on strings
Contains(t, s) ==
    \E k \in 0..(Len(t) - Len(s)) : SubSeq(t, k + 1, k + Len(s)) = s

\* faulty variant of should_append: no test for an import already present
should_append_unchecked(imp, token, deps) ==
    Contains(token, last_component_of_import(imp))

\* faulty variant of should_append: the token has to equal the simple name
should_append_exact(imp, token, deps) ==
    /\ token = last_component_of_import(imp)
    /\ imp \notin Range(deps)

\* the condition of line 142
should_append(imp, token, deps) ==
    /\ Contains(token, last_component_of_import(imp))
    /\ imp \notin Range(deps)

RECURSIVE ForTokens(_, _, _, _)
ForTokens(deps, imp, tokens, j) ==
    IF j > Len(tokens) THEN deps
    ELSE CHOOSE r \in {ForTokens(d, imp, tokens, j + 1) :
                           d \in {IF should_append(imp, tokens[j], deps)
                                  THEN Append(deps, imp) ELSE deps}} : TRUE

RECURSIVE ForImports(_, _, _, _)
ForImports(deps, imports, tokens, i) ==
    IF i > Len(imports) THEN deps
    ELSE CHOOSE r \in {ForImports(d, imports, tokens, i + 1) :
                           d \in {ForTokens(deps, imports[i], tokens, 1)}} : TRUE

\* _add_imports_to_entity_result
_add_imports_to_entity_result(e, parent) ==
    [e EXCEPT !.scanned_import_dependencies =
                  ForImports(@, parent.scanned_import_dependencies, e.scanned_tokens, 1)]

\* faulty variant of create_unique_entity_name: the dot is always put in
create_unique_entity_name_dotted(e) ==
    [e EXCEPT !.unique_name = e.module_name \o <<DOT>> \o e.entity_name]

\* create_unique_entity_name
create_unique_entity_name(e) ==
    [e EXCEPT !.unique_name =
                  IF e.module_name # <<>>
                  THEN e.module_name \o <<DOT>> \o e.entity_name
                  ELSE e.entity_name]

\* ---------------------------------------------------------------- state

VARIABLES
    results,        \* self._results, the (key, value) items in the order of the keys
    stats,          \* analysis.statistics of every analysis
    pc,             \* where the running call stands ("idle": no call runs)
    analysis,       \* the analysis argument of the running call
    cur,            \* the file_result / entity_result being built
    stream,         \* the token list the running extraction loop iterates
    pos,            \* the position that loop has reached
    todo_files,     \* filtered_results, the part not yet iterated
    todo_entities,  \* entity_results, the part not yet iterated
    file_objects,   \* every FileResult made so far, by identity
    next_id,        \* the identity of the next record made
    budget,         \* how many calls of each operation may still start
    attempts,       \* history: the positions the running loop has tried to match
    tried,          \* history: per analysis, the matched and failed attempts of
                    \* the package, import and inheritance routines
    started_with    \* history: the file results in the mapping when the
                    \* running entity generation started

vars == <<results, stats, pc, analysis, cur, stream, pos, todo_files, todo_entities,
          file_objects, next_id, budget, attempts, tried, started_with>>

\* KotlinParser.__init__: an empty mapping; fresh analyses with zero counters
InitParser ==
    /\ results = <<>>
    /\ stats = [an \in Analyses |-> [PARSING_HITS |-> 0, PARSING_MISSES |-> 0]]
    /\ pc = "idle"
    /\ analysis = ""
    /\ cur = NoResult
    /\ stream = <<>>
    /\ pos = 1
    /\ todo_files = <<>>
    /\ todo_entities = <<>>
    /\ file_objects = <<>>
    /\ next_id = 1
    /\ attempts = <<>>
    /\ tried = [an \in Analyses |-> [matched |-> 0, failed |-> 0]]
    /\ started_with = {}

Init ==
    /\ InitParser
    /\ budget = [file |-> MaxFileCalls, entity |-> MaxEntityCalls]

InitFair ==
    /\ InitParser
    /\ budget = [file |-> MaxFairFileCalls, entity |-> MaxFairEntityCalls]

Done(c, step) == [c EXCEPT !.steps = Append(@, step)]

CountAttempt(t, an, ok) ==
    IF ok THEN [t EXCEPT ![an].matched = @ + 1] ELSE [t EXCEPT ![an].failed = @ + 1]

\* one iteration of an extraction loop over stream; r is what the loop body
\* does at an anchor token
ScanStep(anchor, r) ==
    /\ pos <= Len(stream)
    /\ IF stream[pos] = anchor
       THEN /\ cur' = r.cur
            /\ stats' = r.stats
            /\ attempts' = Append(attempts, pos)
            /\ tried' = CountAttempt(tried, cur.analysis, r.ok)
            /\ pos' = next_position(stream, pos, r.ok)
       ELSE /\ pos' = next_position(stream, pos, TRUE)
            /\ UNCHANGED <<cur, stats, attempts, tried>>
    /\ UNCHANGED <<results, pc, analysis, stream, todo_files, todo_entities,
                   file_objects, next_id, budget, started_with>>

\* generate_file_result_from_analysis, lines 76-94: tokens, the new FileResult
GenerateFileResult(an, path, content) ==
    /\ pc = "idle"
    /\ budget.file > 0
    /\ budget' = [budget EXCEPT !.file = @ - 1]
    /\ analysis' = an
    /\ cur' = create_file_result(next_id, an, path, content)
    /\ next_id' = next_id + 1
    /\ stream' = filtered_list_no_comments(content)
    /\ pos' = 1
    /\ attempts' = <<>>
    /\ pc' = "package"
    /\ UNCHANGED <<results, stats, todo_files, todo_entities, file_objects, tried,
                   started_with>>

\* _add_package_name_to_result, one iteration of its loop
PackageStep ==
    /\ pc = "package"
    /\ ScanStep(PACKAGE, add_package_name(cur, stats, create_read_ahead_string(stream, pos)))

\* _add_package_name_to_result returns; _add_imports_to_result filters the tokens
PackageDone ==
    /\ pc = "package"
    /\ pos > Len(stream)
    /\ cur' = Done(cur, "package")
    /\ stream' = filtered_list_no_comments(cur.scanned_tokens)
    /\ pos' = 1
    /\ attempts' = <<>>
    /\ pc' = "imports"
    /\ UNCHANGED <<results, stats, analysis, todo_files, todo_entities, file_objects,
                   next_id, budget, tried, started_with>>

\* _add_imports_to_result, one iteration of its loop
ImportStep ==
    /\ pc = "imports"
    /\ ScanStep(IMPORT,
                add_imports(cur, stats, create_read_ahead_string(stream, pos), analysis))

\* _add_imports_to_result returns
ImportDone ==
    /\ pc = "imports"
    /\ pos > Len(stream)
    /\ cur' = Done(cur, "imports")
    /\ pc' = "file_insert"
    /\ UNCHANGED <<results, stats, analysis, stream, pos, todo_files, todo_entities,
                   file_objects, next_id, budget, attempts, tried, started_with>>

\* line 98: self._results[file_result.unique_name] = file_result; the call returns
FileInsert ==
    /\ pc = "file_insert"
    /\ results' = dict_set(results, cur.unique_name, cur)
    /\ file_objects' = (cur.id :> cur) @@ file_objects
    /\ cur' = NoResult
    /\ stream' = <<>>
    /\ pos' = 1
    /\ attempts' = <<>>
    /\ analysis' = ""
    /\ pc' = "idle"
    /\ UNCHANGED <<stats, todo_files, todo_entities, next_id, budget, tried, started_with>>

\* generate_entity_results_from_analysis, line 111: the filtered snapshot
GenerateEntityResults(an) ==
    /\ pc = "idle"
    /\ budget.entity > 0
    /\ budget' = [budget EXCEPT !.entity = @ - 1]
    /\ analysis' = an
    /\ todo_files' = filtered_results(results, an)
    /\ started_with' = {v.id : v \in {w \in Range(Values(results)) : w.kind = "file"}}
    /\ pc' = "next_file"
    /\ UNCHANGED <<results, stats, cur, stream, pos, todo_entities, file_objects,
                   next_id, attempts, tried>>

\* line 114: the next file result, and line 128: its entity results
NextFile ==
    /\ pc = "next_file"
    /\ todo_files # <<>>
    /\ todo_entities' = generate_entity_results_from_scopes(Head(todo_files), next_id)
    /\ next_id' = next_id + Len(todo_entities')
    /\ todo_files' = Tail(todo_files)
    /\ pc' = "next_entity"
    /\ UNCHANGED <<results, stats, analysis, cur, stream, pos, file_objects, budget,
                   attempts, tried, started_with>>

\* line 114: no file result is left; the call returns
EntityResultsDone ==
    /\ pc = "next_file"
    /\ todo_files = <<>>
    /\ pc' = "idle"
    /\ analysis' = ""
    /\ started_with' = {}
    /\ UNCHANGED <<results, stats, cur, stream, pos, todo_files, todo_entities,
                   file_objects, next_id, budget, attempts, tried>>

\* line 131: the next entity result of the file
NextEntity ==
    /\ pc = "next_entity"
    /\ IF todo_entities = <<>>
       THEN /\ pc' = "next_file"
            /\ UNCHANGED <<cur, stream, todo_entities>>
       ELSE /\ cur' = Head(todo_entities)
            /\ todo_entities' = Tail(todo_entities)
            /\ stream' = Head(todo_entities).scanned_tokens
            /\ pc' = "inheritance"
    /\ pos' = 1
    /\ attempts' = <<>>
    /\ UNCHANGED <<results, stats, analysis, todo_files, file_objects, next_id, budget,
                   tried, started_with>>

\* _add_inheritance_to_entity_result, one iteration of its loop
InheritanceStep ==
    /\ pc = "inheritance"
    /\ ScanStep(CLASS, add_inheritance(cur, stats, create_read_ahead_string(stream, pos)))

\* _add_inheritance_to_entity_result returns
InheritanceDone ==
    /\ pc = "inheritance"
    /\ pos > Len(stream)
    /\ cur' = Done(cur, "inheritance")
    /\ pc' = "entity_imports"
    /\ UNCHANGED <<results, stats, analysis, stream, pos, todo_files, todo_entities,
                   file_objects, next_id, budget, attempts, tried, started_with>>

\* line 133: _add_imports_to_entity_result(entity_result)
EntityImports ==
    /\ pc = "entity_imports"
    /\ cur' = Done(_add_imports_to_entity_result(cur, file_objects[cur.parent]), "imports")
    /\ pc' = "naming"
    /\ UNCHANGED <<results, stats, analysis, stream, pos, todo_files, todo_entities,
                   file_objects, next_id, budget, attempts, tried, started_with>>

\* line 134: create_unique_entity_name(entity_result)
Naming ==
    /\ pc = "naming"
    /\ cur' = Done(create_unique_entity_name(cur), "naming")
    /\ pc' = "entity_insert"
    /\ UNCHANGED <<results, stats, analysis, stream, pos, todo_files, todo_entities,
                   file_objects, next_id, budget, attempts, tried, started_with>>

\* line 135: self._results[entity_result.unique_name] = entity_result
EntityInsert ==
    /\ pc = "entity_insert"
    /\ results' = dict_set(results, cur.unique_name, cur)
    /\ cur' = NoResult
    /\ stream' = <<>>
    /\ pos' = 1
    /\ attempts' = <<>>
    /\ pc' = "next_entity"
    /\ UNCHANGED <<stats, analysis, todo_files, todo_entities, file_objects, next_id,
                   budget, tried, started_with>>

Next ==
    \/ \E an \in Analyses, source \in Sources :
           GenerateFileResult(an, source.path, source.content)
    \/ PackageStep
    \/ PackageDone
    \/ ImportStep
    \/ ImportDone
    \/ FileInsert
    \/ \E an \in Analyses : GenerateEntityResults(an)
    \/ NextFile
    \/ EntityResultsDone
    \/ NextEntity
    \/ InheritanceStep
    \/ InheritanceDone
    \/ EntityImports
    \/ Naming
    \/ EntityInsert

Spec == Init /\ [][Next]_vars

\* a call, once started, runs to its end: every step of a running call that
\* can be taken is taken
Fairness ==
    /\ WF_vars(PackageStep)
    /\ WF_vars(PackageDone)
    /\ WF_vars(ImportStep)
    /\ WF_vars(ImportDone)
    /\ WF_vars(FileInsert)
    /\ WF_vars(NextFile)
    /\ WF_vars(EntityResultsDone)
    /\ WF_vars(NextEntity)
    /\ WF_vars(InheritanceStep)
    /\ WF_vars(InheritanceDone)
    /\ WF_vars(EntityImports)
    /\ WF_vars(Naming)
    /\ WF_vars(EntityInsert)

FairSpec == InitFair /\ [][Next]_vars /\ Fairness

\* ---------------------------------------------------------------- claims

Entries == Range(Values(results))

FileEntries == {v \in Entries : v.kind = "file"}

EntityEntries == {v \in Entries : v.kind = "entity"}

\* the successful import matches at the IMPORT tokens, in anchor order
ImportMatches(toks) ==
    LET P == AnchorPositions(toks, IMPORT)
    IN SelectSeq([k \in 1..Len(P) |-> MatchImport(create_read_ahead_string(toks, P[k]))],
                 LAMBDA m : m.ok)

\* the successful entity matches at the CLASS and OBJECT tokens, in anchor order
EntityMatches(toks) ==
    LET P == SortedSeq({i \in 1..Len(toks) : toks[i] \in {CLASS, OBJECT}})
    IN SelectSeq([k \in 1..Len(P) |->
                      MatchEntityExpression(create_read_ahead_string(toks, P[k]),
                                            {CLASS, OBJECT})],
                 LAMBDA m : m.ok)

\* C1: every match attempt of the package, import and inheritance routines
\* increments exactly one counter once: after N matched and M failed attempts
\* for an analysis, its PARSING_HITS is N and its PARSING_MISSES is M.
C1_CountersMatchAttempts ==
    \A an \in Analyses :
        /\ stats[an].PARSING_HITS = tried[an].matched
        /\ stats[an].PARSING_MISSES = tried[an].failed

FirstIndex(s, x) ==
    CHOOSE i \in 1..Len(s) : s[i] = x /\ \A j \in 1..(i - 1) : s[j] # x

\* C2: every entity result of the mapping lists no import twice, lists only
\* imports of its parent file result, and lists them in the order of their
\* first occurrence in the parent's list.
C2_EntityImportsOrderedSubset ==
    \A e \in EntityEntries :
        LET p == file_objects[e.parent].scanned_import_dependencies
            d == e.scanned_import_dependencies
        IN /\ \A i, j \in 1..Len(d) : i # j => d[i] # d[j]
           /\ Range(d) \subseteq Range(p)
           /\ \A i, j \in 1..Len(d) : i < j => FirstIndex(p, d[i]) < FirstIndex(p, d[j])

\* an entity with two propagated imports whose parent lists an import twice
C2_Witness ==
    \E e \in EntityEntries :
        LET p == file_objects[e.parent].scanned_import_dependencies
        IN /\ Len(e.scanned_import_dependencies) >= 2
           /\ \E i, j \in 1..Len(p) : i # j /\ p[i] = p[j]

\* C3: no import path the ignore predicate of a record's analysis accepts is
\* in the scanned_import_dependencies of a file or entity result of the mapping.
C3_NoIgnoredDependency ==
    \A v \in Entries :
        \A d \in Range(v.scanned_import_dependencies) :
            ~_is_dependency_in_ignore_list(d, v.analysis)

\* an entity whose parent file imports an ignored path, matched by the import
\* grammar, whose simple name occurs in the entity's tokens
C3_Witness ==
    \E e \in EntityEntries :
        LET f == file_objects[e.parent]
            ms == ImportMatches(filtered_list_no_comments(f.scanned_tokens))
        IN \E k \in 1..Len(ms) :
               /\ _is_dependency_in_ignore_list(ms[k].name, f.analysis)
               /\ \E t \in Range(e.scanned_tokens) :
                      Contains(t, last_component_of_import(ms[k].name))

\* the unique names of the entities a file result declares
DeclaredNames(f) ==
    {create_unique_entity_name(e).unique_name :
         e \in Range(generate_entity_results_from_scopes(f, 0))}

\* entity generation for the analysis has handled every file result
EntityGenerationEnds == pc = "next_file" /\ todo_files = <<>>

LastDeclaring(i, j, u) ==
    /\ i < j
    /\ results[i].value.kind = "file" /\ results[i].value.analysis = analysis
    /\ results[j].value.kind = "file" /\ results[j].value.analysis = analysis
    /\ u \in DeclaredNames(results[i].value) \cap DeclaredNames(results[j].value)
    /\ \A k \in (j + 1)..Len(results) :
           (results[k].value.kind = "file" /\ results[k].value.analysis = analysis)
               => u \notin DeclaredNames(results[k].value)

\* C4: when two file results of the analysis declare an entity with the same
\* unique name, then at the end of entity generation the mapping has exactly
\* one entry under that name: the entity result whose parent is the file
\* result that comes later in the mapping.
C4_LaterFileWins ==
    EntityGenerationEnds =>
        \A i, j \in 1..Len(results) : \A u \in DeclaredNames(results[i].value) :
            LastDeclaring(i, j, u) =>
                /\ Cardinality({k \in 1..Len(results) : results[k].key = u}) = 1
                /\ Lookup(results, u).kind = "entity"
                /\ Lookup(results, u).parent = results[j].value.id

\* two files without package, generated one after the other, both declare u
C4_Witness ==
    /\ EntityGenerationEnds
    /\ \E i, j \in 1..Len(results) : \E u \in DeclaredNames(results[i].value) :
           /\ LastDeclaring(i, j, u)
           /\ results[i].value.id < results[j].value.id
           /\ results[i].value.module_name = <<>>
           /\ results[j].value.module_name = <<>>

unique_name(module, entity) ==
    IF module # <<>> THEN module \o <<DOT>> \o entity ELSE entity

\* C5: the unique name of every named entity is module_name.entity_name, or
\* entity_name alone when module_name is empty, and every entity result of
\* the mapping is stored under its unique name.
C5_UniqueNameIsKey ==
    /\ pc = "entity_insert" =>
           cur.unique_name = unique_name(cur.module_name, cur.entity_name)
    /\ \A k \in 1..Len(results) :
           results[k].value.kind = "entity" =>
               /\ results[k].key = results[k].value.unique_name
               /\ results[k].key = unique_name(results[k].value.module_name,
                                               results[k].value.entity_name)

\* one entity with a package and one without
C5_Witness ==
    /\ \E e \in EntityEntries : e.module_name # <<>>
    /\ \E e \in EntityEntries : e.module_name = <<>> /\ e.unique_name = e.entity_name

\* the supertypes of the declarations (class or object) of a token slice that
\* the entity grammar matches with a ":" clause, one per declaration
DeclaredSupertypes(tokens) ==
    LET ms == EntityMatches(tokens)
        withClause == SelectSeq(ms, LAMBDA m : m.inherited # <<>>)
    IN [k \in 1..Len(withClause) |-> withClause[k].inherited]

\* C6: for every declaration the entity grammar matches, class or object,
\* inheritance extraction appends one supertype name when the declaration has
\* a ":" clause and nothing when it has none.
C6_OneSupertypePerDeclaration ==
    \A e \in EntityEntries :
        e.scanned_inheritance_dependencies = DeclaredSupertypes(e.scanned_tokens)

Scanning == {"package", "imports", "inheritance"}

Anchor ==
    CASE pc = "package" -> PACKAGE
      [] pc = "imports" -> IMPORT
      [] OTHER -> CLASS

\* the attempts made so far are the anchor positions already passed, in order
AttemptsAreAnchorsPassed ==
    pc \in Scanning =>
        /\ pos <= Len(stream) + 1
        /\ attempts = SortedSeq({i \in 1..(pos - 1) : stream[i] = Anchor})

ScanAdvances ==
    /\ AttemptsAreAnchorsPassed'
    /\ (pc \in Scanning /\ pc' = pc /\ stream' = stream /\ pos' # pos) => pos' = pos + 1
    /\ (pc \in Scanning /\ pc' # pc) =>
           /\ pos = Len(stream) + 1
           /\ attempts = AnchorPositions(stream, Anchor)

\* C7: an extraction routine makes one match attempt at every position that
\* holds its anchor keyword, in increasing order, whatever the earlier
\* outcomes, never at a position twice, and ends when the stream is exhausted.
C7_EveryAnchorAttemptedOnce ==
    /\ [][ScanAdvances]_vars
    /\ \A p \in Scanning : (pc = p) ~> (pc # p)

\* a routine has passed a failed attempt and made a later attempt
C7_Witness ==
    /\ pc \in Scanning
    /\ \E k \in 1..Len(attempts) :
           /\ k < Len(attempts)
           /\ LET ra == create_read_ahead_string(stream, attempts[k])
              IN CASE pc = "package" -> ~MatchPackage(ra).ok
                   [] pc = "imports" -> ~MatchImport(ra).ok
                   [] OTHER -> ~MatchEntityExpression(ra, {CLASS}).ok

\* a record without the identities of the objects
View(v) == [v EXCEPT !.id = 0,
                     !.parent = IF v.kind = "entity" THEN file_objects[v.parent].unique_name
                                ELSE <<>>]

\* C8 as claimed: a record that is a value of the mapping is a value of the
\* mapping in every later state.
C8_RecordsNeverRemoved ==
    [][\A v \in Entries : \E w \in Entries' : View(v) = View(w)']_vars

\* C8 as amended: no key ever leaves the mapping, a value changes only by an
\* insertion under its own key, and the mapping is empty only as long as no
\* record was inserted.
C8_KeysNeverRemoved ==
    [][/\ Keys(results) \subseteq Keys(results')
       /\ \A k \in Keys(results) :
              Lookup(results', k) # Lookup(results, k) =>
                  /\ pc \in {"file_insert", "entity_insert"}
                  /\ cur.unique_name = k
                  /\ Lookup(results', k) = cur
       /\ (results' = <<>>) => (file_objects' = <<>> /\ results = <<>>)]_vars

\* a file result that was inserted has been replaced under its key
C8_Witness ==
    \E id \in DOMAIN file_objects :
        /\ file_objects[id] \notin Entries
        /\ file_objects[id].unique_name \in Keys(results)

InEntityGeneration ==
    pc \in {"next_file", "next_entity", "inheritance", "entity_imports", "naming",
            "entity_insert"}

FromSnapshot(parentId) ==
    /\ parentId \in started_with
    /\ file_objects[parentId].analysis = analysis

\* C9: a record of the mapping has all its extraction steps behind it, in
\* order (package, imports for a file result; inheritance, imports, naming
\* for an entity result), and entity generation builds entities only from
\* file results of its analysis that were in the mapping when it started.
C9_InsertionIsLast ==
    /\ \A v \in FileEntries : v.steps = <<"package", "imports">>
    /\ \A v \in EntityEntries : v.steps = <<"inheritance", "imports", "naming">>
    /\ InEntityGeneration =>
           /\ \A f \in Range(todo_files) : FromSnapshot(f.id)
           /\ \A e \in Range(todo_entities) : FromSnapshot(e.parent)
           /\ cur.kind = "entity" => FromSnapshot(cur.parent)

\* an entity is being built, with steps pending, while the mapping holds
\* finished file and entity results, one of them of another analysis
C9_Witness ==
    /\ pc = "inheritance"
    /\ cur.steps = <<>>
    /\ EntityEntries # {}
    /\ \E v \in FileEntries : v.analysis # analysis

\* the paths of the successful, not ignored import matches of a file result
ExpectedImports(f) ==
    LET ms == ImportMatches(filtered_list_no_comments(f.scanned_tokens))
        kept == SelectSeq(ms, LAMBDA m : ~_is_dependency_in_ignore_list(m.name, f.analysis))
    IN [k \in 1..Len(kept) |-> kept[k].name]

\* C10: a file result's scanned_import_dependencies is the sequence of the
\* paths of the successful, not ignored import matches in the order of their
\* anchors in the comment-filtered stream, a repeated path repeated.
C10_FileImportsAreTheMatches ==
    \A f \in FileEntries : f.scanned_import_dependencies = ExpectedImports(f)

\* a file result that lists the same import twice
C10_Witness ==
    \E f \in FileEntries :
        \E i, j \in 1..Len(f.scanned_import_dependencies) :
            i # j /\ f.scanned_import_dependencies[i] = f.scanned_import_dependencies[j]

\* the entity results _add_imports_to_entity_result has returned for: the one
\* being built once that step is done, and those of the mapping
AfterEntityImports ==
    EntityEntries \cup
        (IF cur.kind = "entity" /\ "imports" \in Range(cur.steps) THEN {cur} ELSE {})

\* some token of the entity's own slice contains the simple name of path p
SimpleNameInSlice(e, p) ==
    \E t \in Range(e.scanned_tokens) : Contains(t, last_component_of_import(p))

\* C11: after _add_imports_to_entity_result, an import path p of the parent
\* file result is in the entity's scanned_import_dependencies if and only if
\* some token of the entity's own token slice contains the last dot-separated
\* component of p as a substring (no identifier equality is needed; a last
\* component that is "*" or empty is treated like any other).
C11_PropagatedIffSubstring ==
    \A e \in AfterEntityImports :
        \A p \in Range(file_objects[e.parent].scanned_import_dependencies) :
            p \in Range(e.scanned_import_dependencies) <=> SimpleNameInSlice(e, p)

\* an entity whose parent imports a path that is left out (no token contains
\* its simple name), a path ending in "*" that is taken over although no token
\* equals "*", and a path with an empty last component that is taken over
C11_Witness ==
    \E e \in AfterEntityImports :
        LET parent == Range(file_objects[e.parent].scanned_import_dependencies)
            own == Range(e.scanned_import_dependencies)
        IN /\ \E p \in parent : p \notin own /\ ~SimpleNameInSlice(e, p)
           /\ \E p \in own :
                  /\ last_component_of_import(p) = <<ASTERISK>>
                  /\ last_component_of_import(p) \notin Range(e.scanned_tokens)
           /\ \E p \in own : last_component_of_import(p) = <<>>

\* the attempts at the PACKAGE tokens of a stream, in anchor order
PackageAttempts(toks) ==
    LET P == AnchorPositions(toks, PACKAGE)
    IN [k \in 1..Len(P) |-> MatchPackage(create_read_ahead_string(toks, P[k]))]

\* the path of the last successful package match, the empty string without one
LastPackageName(f) ==
    LET ms == SelectSeq(PackageAttempts(filtered_list_no_comments(f.scanned_tokens)),
                        LAMBDA m : m.ok)
    IN IF ms = <<>> THEN <<>> ELSE ms[Len(ms)].name

\* the file results the package routine has returned for
AfterPackageName ==
    FileEntries \cup
        (IF cur.kind = "file" /\ "package" \in Range(cur.steps) THEN {cur} ELSE {})

ModuleNameIsLastMatch ==
    \A f \in AfterPackageName : f.module_name = LastPackageName(f)

\* the package routine is at a PACKAGE token where the match fails
FailedPackageMatch ==
    /\ pc = "package"
    /\ pos <= Len(stream)
    /\ stream[pos] = PACKAGE
    /\ ~MatchPackage(create_read_ahead_string(stream, pos)).ok

\* a failed package match changes the miss counter of the analysis only
FailedPackageMatchFrame ==
    FailedPackageMatch =>
        /\ cur' = cur
        /\ results' = results
        /\ stats' = [stats EXCEPT ![cur.analysis].PARSING_MISSES = @ + 1]

\* C12: after generate_file_result_from_analysis the file result's module_name
\* is the path of the last successful package match in the comment-filtered
\* stream, and the empty string when none succeeded; a failed package match
\* leaves module_name and the import list as they are and changes the miss
\* counter only; a later successful match overwrites an earlier name.
C12_ModuleNameIsLastPackageMatch ==
    []ModuleNameIsLastMatch /\ [][FailedPackageMatchFrame]_vars

\* the mapping holds a file result named by the second of two successful
\* package matches, and one whose name survived a later failed match
C12_Witness ==
    /\ \E f \in FileEntries :
           LET ms == SelectSeq(PackageAttempts(filtered_list_no_comments(f.scanned_tokens)),
                               LAMBDA m : m.ok)
           IN Len(ms) >= 2 /\ ms[1].name # f.module_name
    /\ \E f \in FileEntries :
           LET as == PackageAttempts(filtered_list_no_comments(f.scanned_tokens))
           IN /\ f.module_name # <<>>
              /\ \E i, j \in 1..Len(as) : i < j /\ as[i].ok /\ ~as[j].ok

=============================================================================
